---- MODULE Spec2Model ----
(***************************************************************************)
(* bel_enrichment.indra_utils: print_statements and the row extraction it  *)
(* drives (get_rows_from_statements, get_rows_from_statement,              *)
(* _keep_evidence, _get_rows_from_statement, get_graph_from_statement).    *)
(*                                                                         *)
(* A Python str is a tuple of one-character strings, so that ordering,     *)
(* substring search, joining and splitting are computed and not assumed.   *)
(* Python's None is the tuple <<"None">>, which is no str.  An optional    *)
(* number is a record: [some |-> FALSE] is None.                           *)
(***************************************************************************)
EXTENDS Integers, Sequences, FiniteSets, TLC

None == <<"None">>
NoNumber == [some |-> FALSE]
Number(n) == [some |-> TRUE, v |-> n]

\* Python truth value of an optional str: None and '' are falsy.
Truthy(v) == v # None /\ v # <<>>

-----------------------------------------------------------------------------
(* Module constants, indra_utils.py lines 29-47.                           *)

header == <<
    <<"I", "N", "D", "R", "A", " ", "U", "U", "I", "D">>,
    <<"B", "e", "l", "i", "e", "f">>,
    <<"P", "M", "I", "D">>,
    <<"E", "v", "i", "d", "e", "n", "c", "e">>,
    <<"A", "P", "I">>,
    <<"S", "u", "b", "j", "e", "c", "t">>,
    <<"P", "r", "e", "d", "i", "c", "a", "t", "e">>,
    <<"O", "b", "j", "e", "c", "t">> >>

\* Row = namedtuple('Row', [...]): the field names, in declaration order.
RowFields == <<"uuid", "evidence_source_hash", "belief", "pmid", "evidence", "api", "bel">>

NO_EVIDENCE_TEXT ==
    <<"N", "o", " ", "e", "v", "i", "d", "e", "n", "c", "e", " ", "t", "e", "x", "t", ".">>
MODIFIED_ASSERTION ==
    <<"M", "o", "d", "i", "f", "i", "e", "d", " ", "a", "s", "s", "e", "r", "t", "i", "o", "n">>
TEXT_BLACKLIST == {NO_EVIDENCE_TEXT, MODIFIED_ASSERTION}

SOURCE_BLACKLIST == {<<"b", "e", "l">>, <<"s", "i", "g", "n", "o", "r">>}
SUBSTRING_BLACKLIST ==
    { <<"C", "H", "E", "B", "I">>,
      <<"P", "U", "B", "C", "H", "E", "M">>,
      <<"a", "c", "t", "(", "b", "p", "(">> }

\* pybel.constants.UNQUALIFIED_EDGES, the members the model's graphs use.
IS_A == <<"i", "s", "A">>
PART_OF == <<"p", "a", "r", "t", "O", "f">>
INCREASES == <<"i", "n", "c", "r", "e", "a", "s", "e", "s">>
UNQUALIFIED_EDGES == {IS_A, PART_OF}

\* The exceptions a collaborator call may raise.
ATTRIBUTE_ERROR == "AttributeError"
KEY_ERROR == "KeyError"
EXCEPTIONS == {ATTRIBUTE_ERROR, KEY_ERROR}

-----------------------------------------------------------------------------
(* Python built-ins on str and list.                                       *)

\* Characters in code point order (str comparison is by code point).
CHARS == <<"\t", " ", "(", ")", ",", ".", ":",
           "0", "1", "2", "3", "4", "5", "6", "7", "8", "9",
           "A", "B", "C", "D", "E", "F", "G", "H", "I", "J", "K", "L", "M",
           "N", "O", "P", "Q", "R", "S", "T", "U", "V", "W", "X", "Y", "Z",
           "a", "b", "c", "d", "e", "f", "g", "h", "i", "j", "k", "l", "m",
           "n", "o", "p", "q", "r", "s", "t", "u", "v", "w", "x", "y", "z">>

CodePoint(c) == CHOOSE i \in 1..Len(CHARS) : CHARS[i] = c

\* s < t for two str.
StrLess(s, t) ==
    \E i \in 1..(Len(t)) :
        /\ \A j \in 1..(i - 1) : j <= Len(s) /\ s[j] = t[j]
        /\ \/ i = Len(s) + 1
           \/ i <= Len(s) /\ CodePoint(s[i]) < CodePoint(t[i])

\* k1 < k2 for two tuples of str of the same length.
KeyLess(k1, k2) ==
    \E i \in 1..Len(k1) :
        /\ \A j \in 1..(i - 1) : k1[j] = k2[j]
        /\ StrLess(k1[i], k2[i])

\* sub in text
Contains(text, sub) ==
    \E i \in 0..(Len(text) - Len(sub)) : SubSeq(text, i + 1, i + Len(sub)) = sub

RECURSIVE Join(_, _)
\* sep.join(parts)
Join(parts, sep) ==
    IF parts = <<>> THEN <<>>
    ELSE IF Len(parts) = 1 THEN parts[1]
    ELSE parts[1] \o sep \o Join(Tail(parts), sep)

\* str(x) of a float with at most two decimals, x given in hundredths.
Digit(n) == CHARS[CodePoint("0") + n]
FloatStr(h) ==
    <<Digit(h \div 100), ".">> \o
        ( IF h % 10 = 0 THEN <<Digit((h % 100) \div 10)>>
          ELSE <<Digit((h % 100) \div 10), Digit(h % 10)>> )

\* round(x, 2), x given in thousandths, the result in hundredths.  The
\* beliefs of the model are no ties (no thousandths digit 5).
round(x) == (x + 5) \div 10

-----------------------------------------------------------------------------
(* The collaborators (indra, pybel), by the contract the module uses.      *)

\* indra.tools.assemble_corpus.run_preassembly: merges overlapping
\* statements.  Its result is the collaborator's business; the model lets it
\* find nothing to merge, or merge every later statement that repeats an
\* earlier uuid into the earlier one (its evidence appended).
RECURSIVE MergeRepeats(_)
MergeRepeats(stmts) ==
    IF stmts = <<>> THEN <<>>
    ELSE LET first == stmts[1]
             rest == Tail(stmts)
             same == SelectSeq(rest, LAMBDA s : s.uuid = first.uuid)
             others == SelectSeq(rest, LAMBDA s : s.uuid # first.uuid)
             RECURSIVE Evidences(_)
             Evidences(ss) ==
                 IF ss = <<>> THEN <<>> ELSE ss[1].evidence \o Evidences(Tail(ss))
         IN  <<[first EXCEPT !.evidence = first.evidence \o Evidences(same)]>>
                 \o MergeRepeats(others)

run_preassembly(stmts) == {stmts, MergeRepeats(stmts)}

\* indra.tools.assemble_corpus.filter_belief: statements at or above the cutoff.
filter_belief(stmts, belief_cutoff) ==
    SelectSeq(stmts, LAMBDA s : s.belief >= belief_cutoff)

\* PybelAssembler([statement]).make_model(): the graph of the statement, or
\* an exception.  What the assembler makes of a statement is a property of
\* the statement the model carries with it (field model).
make_model(statement) == statement.model

\* BELGraph.edge_to_bel(u, v, data, sep, use_identifiers=True)
edge_to_bel(u, v, data, sep) == Join(<<u, data.relation, v>>, sep)

-----------------------------------------------------------------------------
(* indra_utils.py lines 168-245.                                           *)

\* _keep_evidence without the test of the source against SOURCE_BLACKLIST
KeepEvidenceAnySource(evidence) ==
    /\ Truthy(evidence.pmid)
    /\ Truthy(evidence.text)
    /\ evidence.text \notin TEXT_BLACKLIST
    /\ Truthy(evidence.source_api)

\* lines 202-209
_keep_evidence(evidence) ==
    /\ Truthy(evidence.pmid)
    /\ Truthy(evidence.text)
    /\ evidence.text \notin TEXT_BLACKLIST
    /\ Truthy(evidence.source_api)
    /\ evidence.source_api \notin SOURCE_BLACKLIST

\* get_graph_from_statement with a bare except
GetGraphCatchingAll(statement) ==
    LET made == make_model(statement)
    IN  IF made.raise # ""
        THEN [raise |-> "", edges |-> <<>>]
        ELSE made

\* lines 236-245: [raise |-> the exception that leaves the call or "",
\* edges |-> graph.edges(data=True)]
get_graph_from_statement(statement) ==
    LET made == make_model(statement)
    IN  IF made.raise = ATTRIBUTE_ERROR
        THEN [raise |-> "", edges |-> <<>>]
        ELSE made

\* lines 225-233
Row(statement, data, bel) ==
    [ uuid |-> statement.uuid,
      evidence_source_hash |-> data.annotations.source_hash,
      belief |-> round(statement.belief),
      pmid |-> data.citation.identifier,
      evidence |-> data.evidence,
      api |-> data.annotations.source_api,
      bel |-> bel ]

\* SkipEdge without the search for the blacklisted substrings
SkipEdgeUnqualifiedOnly(data, bel) == data.relation \in UNQUALIFIED_EDGES

\* lines 217-223: the edge is passed over
SkipEdge(data, bel) ==
    \/ data.relation \in UNQUALIFIED_EDGES
    \/ \E s \in SUBSTRING_BLACKLIST : Contains(bel, s)

RECURSIVE RowsOfEdges(_, _)
\* lines 216-233: the rows the loop over the edges yields
RowsOfEdges(statement, edges) ==
    IF edges = <<>> THEN <<>>
    ELSE LET e == edges[1]
             bel == edge_to_bel(e.u, e.v, e.data, <<"\t">>)
         IN  ( IF SkipEdge(e.data, bel) THEN <<>>
               ELSE <<Row(statement, e.data, bel)>> )
                 \o RowsOfEdges(statement, Tail(edges))

\* lines 212-233
_get_rows_from_statement(statement) ==
    LET graph == get_graph_from_statement(statement)
    IN  [ raise |-> graph.raise,
          rows |-> IF graph.raise = "" THEN RowsOfEdges(statement, graph.edges)
                   ELSE <<>> ]

\* line 180
KeptEvidence(evidence) == SelectSeq(evidence, _keep_evidence)

\* lines 186-191
OnlyPmid(evidence, pmid) ==
    IF pmid # None
    THEN SelectSeq(evidence, LAMBDA e : e.pmid = pmid)
    ELSE evidence

\* FirstOnly keeping the last evidence: del statement.evidence[:-1]
LastOnly(evidence, dup) ==
    IF ~dup /\ Len(evidence) > 1 THEN <<evidence[Len(evidence)]>> ELSE evidence

\* lines 194-197: del statement.evidence[1:]
FirstOnly(evidence, dup) ==
    IF ~dup /\ Len(evidence) > 1 THEN <<evidence[1]>> ELSE evidence

\* NothingKept with the early return left out
NeverNothingKept(evidence) == FALSE

\* lines 183-184: the guard of the early return
NothingKept(evidence) == Len(evidence) = 0

\* lines 180-199: [statement |-> the statement as the call leaves it,
\* assembled |-> whether get_graph_from_statement was called on it,
\* raise |-> the exception that leaves the call or "", rows |-> the rows]
get_rows_from_statement(statement, dup, pmid) ==
    LET kept == KeptEvidence(statement.evidence)
    IN  IF NothingKept(kept)
        THEN [ statement |-> [statement EXCEPT !.evidence = kept],
               assembled |-> FALSE, raise |-> "", rows |-> <<>> ]
        ELSE LET handed ==
                     [statement EXCEPT !.evidence = FirstOnly(OnlyPmid(kept, pmid), dup)]
                 got == _get_rows_from_statement(handed)
             IN  [ statement |-> handed, assembled |-> TRUE,
                   raise |-> got.raise, rows |-> got.rows ]

-----------------------------------------------------------------------------
(* indra_utils.py lines 139-155.                                           *)

\* attrgetter(*sort_attrs)(row)
attrgetter(attrs, row) == [i \in 1..Len(attrs) |-> row[attrs[i]]]

\* InsertRow before the first element whose key is greater or equal: a sort
\* that is not stable
InsertRowUnstable(sortedRows, row, attrs) ==
    LET notLess == {i \in 1..Len(sortedRows) :
                        ~KeyLess(attrgetter(attrs, sortedRows[i]), attrgetter(attrs, row))}
        at == IF notLess = {} THEN Len(sortedRows) + 1
              ELSE CHOOSE i \in notLess : \A j \in notLess : i <= j
    IN  SubSeq(sortedRows, 1, at - 1) \o <<row>> \o SubSeq(sortedRows, at, Len(sortedRows))

\* list.insert before the first element whose key is greater: where a stable
\* sort puts an element that came after all of sortedRows.
InsertRow(sortedRows, row, attrs) ==
    LET greater == {i \in 1..Len(sortedRows) :
                        KeyLess(attrgetter(attrs, row), attrgetter(attrs, sortedRows[i]))}
        at == IF greater = {} THEN Len(sortedRows) + 1
              ELSE CHOOSE i \in greater : \A j \in greater : i <= j
    IN  SubSeq(sortedRows, 1, at - 1) \o <<row>> \o SubSeq(sortedRows, at, Len(sortedRows))

RECURSIVE sorted(_, _)
\* line 149: sorted(rows, key=attrgetter(*sort_attrs))
sorted(rs, attrs) ==
    IF rs = <<>> THEN <<>>
    ELSE InsertRow(sorted(SubSeq(rs, 1, Len(rs) - 1), attrs), rs[Len(rs)], attrs)

\* Slice one row too long: rows[:limit + 1]
SliceOneMore(rs, n) ==
    IF n + 1 >= 0 THEN SubSeq(rs, 1, IF n + 1 < Len(rs) THEN n + 1 ELSE Len(rs))
    ELSE SubSeq(rs, 1, IF Len(rs) + n + 1 > 0 THEN Len(rs) + n + 1 ELSE 0)

\* line 152: rows[:limit]
Slice(rs, n) ==
    IF n >= 0 THEN SubSeq(rs, 1, IF n < Len(rs) THEN n ELSE Len(rs))
    ELSE SubSeq(rs, 1, IF Len(rs) + n > 0 THEN Len(rs) + n ELSE 0)

\* line 155: print(*row, sep=sep) writes str() of each field of the row, in
\* the order of the namedtuple, joined by sep.
RowStrs(row) ==
    [i \in 1..Len(RowFields) |->
        IF RowFields[i] = "belief" THEN FloatStr(row.belief) ELSE row[RowFields[i]]]

RowLine(row, separator) == Join(RowStrs(row), separator)

\* line 141
HeaderLine(separator) == Join(header, separator)

-----------------------------------------------------------------------------
(* The values the inputs are drawn from.                                   *)

MaxStatements == 2
MaxEvidence == 2

PMID_1 == <<"1">>
PMID_2 == <<"2">>
PMID_10 == <<"1", "0">>
TEXT_1 == <<"t", "e", "x", "t">>
TEXT_2 == <<"C", "H", "E", "B", "I">>
REACH == <<"r", "e", "a", "c", "h">>
SPARSER == <<"s", "p", "a", "r", "s", "e", "r">>
HGNC_1 == <<"p", "(", "H", "G", "N", "C", ":", "1", ")">>
HGNC_2 == <<"p", "(", "H", "G", "N", "C", ":", "2", ")">>
CHEBI_1 == <<"a", "(", "C", "H", "E", "B", "I", ":", "1", ")">>
chebi_1 == <<"a", "(", "c", "h", "e", "b", "i", ":", "1", ")">>
PUBCHEM_1 == <<"a", "(", "P", "U", "B", "C", "H", "E", "M", ":", "1", ")">>
ACT_BP == <<"a", "c", "t", "(", "b", "p", "(", "G", "O", ":", "1", ")", ")">>
ACT_P == <<"a", "c", "t", "(", "p", "(", "H", "G", "N", "C", ":", "1", ")", ")">>

\* Every Evidence over absent, empty, blacklisted and usable fields.
EVIDENCES ==
    [ pmid : {None, <<>>, PMID_1, PMID_2},
      text : {None, <<>>, NO_EVIDENCE_TEXT, MODIFIED_ASSERTION, TEXT_1},
      source_api : {None, <<>>, <<"b", "e", "l">>, <<"s", "i", "g", "n", "o", "r">>, REACH} ]

Evidence(pmid, text, source_api) == [pmid |-> pmid, text |-> text, source_api |-> source_api]

\* The evidences the lists of the row extraction are made of.
SOME_EVIDENCES ==
    { Evidence(PMID_1, TEXT_1, REACH),
      Evidence(PMID_1, TEXT_2, SPARSER),
      Evidence(PMID_2, TEXT_1, REACH),
      Evidence(None, TEXT_1, REACH),
      Evidence(PMID_2, NO_EVIDENCE_TEXT, REACH),
      Evidence(PMID_1, TEXT_1, <<"b", "e", "l">>) }

SeqsUpTo(S, n) == UNION {[1..k -> S] : k \in 0..n}

Edge(u, relation, v, pmid, text, hash, api) ==
    [ u |-> u, v |-> v,
      data |-> [ relation |-> relation,
                 citation |-> [identifier |-> pmid],
                 evidence |-> text,
                 annotations |-> [source_hash |-> hash, source_api |-> api] ] ]

Graph(edges) == [raise |-> "", edges |-> edges]
Raises(exc) == [raise |-> exc, edges |-> <<>>]

\* Graphs whose rows come out of order and tie on (uuid, pmid).
GRAPH_1 ==
    Graph(<< Edge(HGNC_1, INCREASES, HGNC_2, PMID_2, TEXT_1, <<"7">>, REACH),
             Edge(HGNC_1, INCREASES, HGNC_2, PMID_10, TEXT_1, <<"8">>, REACH),
             Edge(HGNC_2, INCREASES, HGNC_1, PMID_2, TEXT_2, <<"9">>, SPARSER) >>)
GRAPH_2 ==
    Graph(<< Edge(HGNC_2, IS_A, HGNC_1, PMID_1, TEXT_1, <<"5">>, REACH),
             Edge(HGNC_2, INCREASES, HGNC_2, PMID_1, TEXT_1, <<"6">>, REACH) >>)

\* Graphs with edges of every kind the row extraction tells apart.
GRAPH_3 ==
    Graph(<< Edge(HGNC_1, PART_OF, HGNC_2, PMID_1, TEXT_1, <<"1">>, REACH),
             Edge(HGNC_1, INCREASES, HGNC_2, PMID_1, TEXT_2, <<"2">>, REACH),
             Edge(CHEBI_1, INCREASES, HGNC_2, PMID_1, TEXT_1, <<"3">>, REACH),
             Edge(chebi_1, INCREASES, HGNC_1, PMID_2, TEXT_1, <<"4">>, SPARSER) >>)
GRAPH_4 ==
    Graph(<< Edge(HGNC_1, INCREASES, PUBCHEM_1, PMID_1, TEXT_1, <<"1">>, REACH),
             Edge(ACT_P, INCREASES, HGNC_2, PMID_2, TEXT_1, <<"2">>, REACH),
             Edge(HGNC_2, INCREASES, ACT_BP, PMID_1, TEXT_1, <<"3">>, REACH),
             Edge(CHEBI_1, IS_A, CHEBI_1, PMID_1, TEXT_1, <<"4">>, REACH) >>)

STATEMENTS ==
    [ uuid : {<<"a">>, <<"b">>},
      belief : {200, 957},
      evidence : {<<Evidence(PMID_1, TEXT_1, REACH)>>},
      model : {GRAPH_1, GRAPH_2, Raises(ATTRIBUTE_ERROR), Raises(KEY_ERROR)} ]

ONE_STATEMENT ==
    [ uuid : {<<"a">>},
      belief : {833},
      evidence : SeqsUpTo(SOME_EVIDENCES, MaxEvidence) \cup {<<e>> : e \in EVIDENCES},
      model : {GRAPH_3, GRAPH_4, Graph(<<>>), Raises(ATTRIBUTE_ERROR), Raises(KEY_ERROR)} ]

-----------------------------------------------------------------------------
(* print_statements as a state machine.                                    *)

VARIABLES
    statements,      \* the statements (parameter, rebound at lines 143, 146)
    sep,             \* parameter sep, rebound at line 139
    limit,           \* parameter limit
    duplicates,      \* parameter duplicates
    keep_only_pmid,  \* parameter keep_only_pmid
    sort_attrs,      \* parameter sort_attrs
    minimum_belief,  \* parameter minimum_belief
    pc,              \* where print_statements is
    next_statement,  \* index of the statement get_rows_from_statements takes next
    generated,       \* the rows get_rows_from_statements has yielded
    rows,            \* the list rows of lines 149-154
    next_row,        \* index of the row the loop of line 154 takes next
    out,             \* the lines written to file
    err,             \* the exception that left print_statements, or ""
    log,             \* one entry per call of get_rows_from_statement
    calls            \* the calls made and the exceptions they raised, in order

vars == << statements, sep, limit, duplicates, keep_only_pmid, sort_attrs,
           minimum_belief, pc, next_statement, generated, rows, next_row,
           out, err, log, calls >>

Started ==
    /\ pc = "start"
    /\ next_statement = 1
    /\ generated = <<>>
    /\ rows = <<>>
    /\ next_row = 1
    /\ out = <<>>
    /\ err = ""
    /\ log = <<>>
    /\ calls = <<>>

Call(name, exc) == [call |-> name, raise |-> exc]

\* print_statements over a collection of statements.
Init ==
    /\ statements \in SeqsUpTo(STATEMENTS, MaxStatements)
    /\ sep = None
    /\ limit \in {NoNumber, Number(-1), Number(0), Number(1), Number(2), Number(4)}
    /\ duplicates = FALSE
    /\ keep_only_pmid = None
    /\ sort_attrs \in {<<"uuid", "pmid">>, <<"bel">>}
    /\ minimum_belief \in {NoNumber, Number(500)}
    /\ Started

\* print_statements over one statement, for the row extraction.
InitRow ==
    /\ statements \in {<<s>> : s \in ONE_STATEMENT}
    /\ sep \in {None, <<",">>}
    /\ limit = NoNumber
    /\ duplicates \in BOOLEAN
    /\ keep_only_pmid \in {None, PMID_1, PMID_10}
    /\ sort_attrs = <<"uuid", "pmid">>
    /\ minimum_belief \in {NoNumber, Number(500)}
    /\ Started

Raise(exc) ==
    /\ pc' = "raised"
    /\ err' = exc

\* lines 139-141
PrintHeader ==
    /\ pc = "start"
    /\ sep' = IF Truthy(sep) THEN sep ELSE <<"\t">>
    /\ out' = Append(out, HeaderLine(sep'))
    /\ pc' = "preassembly"
    /\ calls' = Append(calls, Call("print_header", ""))
    /\ UNCHANGED << statements, limit, duplicates, keep_only_pmid, sort_attrs,
                    minimum_belief, next_statement, generated, rows, next_row,
                    err, log >>

\* line 143
RunPreassembly ==
    /\ pc = "preassembly"
    /\ statements' \in run_preassembly(statements)
    /\ pc' = "belief"
    /\ calls' = Append(calls, Call("run_preassembly", ""))
    /\ UNCHANGED << sep, limit, duplicates, keep_only_pmid, sort_attrs,
                    minimum_belief, next_statement, generated, rows, next_row,
                    out, err, log >>

\* line 143, the collaborator raising
RunPreassemblyRaises ==
    /\ pc = "preassembly"
    /\ \E exc \in EXCEPTIONS :
        /\ Raise(exc)
        /\ calls' = Append(calls, Call("run_preassembly", exc))
    /\ UNCHANGED << statements, sep, limit, duplicates, keep_only_pmid, sort_attrs,
                    minimum_belief, next_statement, generated, rows, next_row,
                    out, log >>

\* lines 145-146
FilterBelief ==
    /\ pc = "belief"
    /\ statements' = IF minimum_belief.some
                     THEN filter_belief(statements, minimum_belief.v)
                     ELSE statements
    /\ pc' = "rows"
    /\ calls' = IF minimum_belief.some
                THEN Append(calls, Call("filter_belief", ""))
                ELSE calls
    /\ UNCHANGED << sep, limit, duplicates, keep_only_pmid, sort_attrs,
                    minimum_belief, next_statement, generated, rows, next_row,
                    out, err, log >>

\* line 146, the collaborator raising
FilterBeliefRaises ==
    /\ pc = "belief"
    /\ minimum_belief.some
    /\ \E exc \in EXCEPTIONS :
        /\ Raise(exc)
        /\ calls' = Append(calls, Call("filter_belief", exc))
    /\ UNCHANGED << statements, sep, limit, duplicates, keep_only_pmid, sort_attrs,
                    minimum_belief, next_statement, generated, rows, next_row,
                    out, log >>

\* lines 164-165, run by sorted() of line 149 consuming the generator: one
\* statement through get_rows_from_statement.
GetRowsFromStatement ==
    /\ pc = "rows"
    /\ next_statement <= Len(statements)
    /\ LET statement == statements[next_statement]
           got == get_rows_from_statement(statement, duplicates, keep_only_pmid)
       IN  /\ statements' = [statements EXCEPT ![next_statement] = got.statement]
           /\ log' = Append(log, [original |-> statement, got |-> got])
           /\ calls' = calls \o <<Call("get_rows_from_statement", got.raise)>>
                    \o ( IF got.assembled
                         THEN <<Call("make_model", make_model(got.statement).raise)>>
                         ELSE <<>> )
           /\ IF got.raise # ""
              THEN /\ Raise(got.raise)
                   /\ UNCHANGED << generated, next_statement >>
              ELSE /\ generated' = generated \o got.rows
                   /\ next_statement' = next_statement + 1
                   /\ UNCHANGED << pc, err >>
    /\ UNCHANGED << sep, limit, duplicates, keep_only_pmid, sort_attrs,
                    minimum_belief, rows, next_row, out >>

\* Sort not waiting for the generator to be exhausted
SortEarly ==
    /\ pc = "rows"
    /\ rows' = sorted(generated, sort_attrs)
    /\ pc' = "limit"
    /\ calls' = Append(calls, Call("sorted", ""))
    /\ UNCHANGED << statements, sep, limit, duplicates, keep_only_pmid, sort_attrs,
                    minimum_belief, next_statement, generated, next_row, out,
                    err, log >>

\* line 149, the generator exhausted
Sort ==
    /\ pc = "rows"
    /\ next_statement > Len(statements)
    /\ rows' = sorted(generated, sort_attrs)
    /\ pc' = "limit"
    /\ calls' = Append(calls, Call("sorted", ""))
    /\ UNCHANGED << statements, sep, limit, duplicates, keep_only_pmid, sort_attrs,
                    minimum_belief, next_statement, generated, next_row, out,
                    err, log >>

\* lines 151-152
Limit ==
    /\ pc = "limit"
    /\ rows' = IF limit.some THEN Slice(rows, limit.v) ELSE rows
    /\ pc' = "write"
    /\ UNCHANGED << statements, sep, limit, duplicates, keep_only_pmid, sort_attrs,
                    minimum_belief, next_statement, generated, next_row, out,
                    err, log, calls >>

\* lines 154-155
PrintRow ==
    /\ pc = "write"
    /\ next_row <= Len(rows)
    /\ out' = Append(out, RowLine(rows[next_row], sep))
    /\ next_row' = next_row + 1
    /\ calls' = Append(calls, Call("print_row", ""))
    /\ UNCHANGED << statements, sep, limit, duplicates, keep_only_pmid, sort_attrs,
                    minimum_belief, pc, next_statement, generated, rows, err, log >>

\* the loop of line 154 over, print_statements returns
Return ==
    /\ pc = "write"
    /\ next_row > Len(rows)
    /\ pc' = "done"
    /\ UNCHANGED << statements, sep, limit, duplicates, keep_only_pmid, sort_attrs,
                    minimum_belief, next_statement, generated, rows, next_row,
                    out, err, log, calls >>

Next ==
    \/ PrintHeader
    \/ RunPreassembly
    \/ RunPreassemblyRaises
    \/ FilterBelief
    \/ FilterBeliefRaises
    \/ GetRowsFromStatement
    \/ Sort
    \/ Limit
    \/ PrintRow
    \/ Return

Spec == Init /\ [][Next]_vars

SpecRow == InitRow /\ [][Next]_vars

-----------------------------------------------------------------------------
(* What the properties are stated with.                                    *)

Range(f) == {f[i] : i \in DOMAIN f}

\* The positions of the calls of a name in the order of calls.
Positions(name) == {i \in 1..Len(calls) : calls[i].call = name}

RECURSIVE Split(_, _)
\* text.split(c) for a one-character c
Split(text, c) ==
    IF \A i \in 1..Len(text) : text[i] # c THEN <<text>>
    ELSE LET at == CHOOSE i \in 1..Len(text) :
                       text[i] = c /\ \A j \in 1..(i - 1) : text[j] # c
         IN  <<SubSeq(text, 1, at - 1)>> \o Split(SubSeq(text, at + 1, Len(text)), c)

RECURSIVE Flatten(_)
Flatten(ss) == IF ss = <<>> THEN <<>> ELSE ss[1] \o Flatten(Tail(ss))

\* The sort key of the default sort_attrs.
Key(row) == <<row.uuid, row.pmid>>

\* An evidence the Evidence Filter is to accept.
Accepts(e) ==
    /\ e.pmid \notin {None, <<>>}
    /\ e.text \notin {None, <<>>, NO_EVIDENCE_TEXT, MODIFIED_ASSERTION}
    /\ e.source_api \notin {None, <<>>, <<"b", "e", "l">>, <<"s", "i", "g", "n", "o", "r">>}

\* The serialized text of an edge, and whether the edge is to give a row.
Bel(e) == e.u \o <<"\t">> \o e.data.relation \o <<"\t">> \o e.v
Qualified(e) ==
    /\ e.data.relation \notin {IS_A, PART_OF}
    /\ ~Contains(Bel(e), <<"C", "H", "E", "B", "I">>)
    /\ ~Contains(Bel(e), <<"P", "U", "B", "C", "H", "E", "M">>)
    /\ ~Contains(Bel(e), <<"a", "c", "t", "(", "b", "p", "(">>)

-----------------------------------------------------------------------------
(* C1 *)

\* C1: the header line is written exactly once and before any data row; a
\* data row is written only after get_rows_from_statement has run on every
\* statement and the rows have been sorted; run_preassembly is called before
\* filter_belief, which is called before any row extraction.
C1_HeaderThenRowsAfterSort ==
    /\ pc = "start" => out = <<>>
    /\ pc # "start" =>
        /\ Positions("print_header") = {1}
        /\ out # <<>> /\ out[1] = Join(header, sep)
    /\ Len(out) = Cardinality(Positions("print_header") \cup Positions("print_row"))
    /\ \A i \in 2..Len(out) : out[i] = RowLine(rows[i - 1], sep)
    /\ \A i \in Positions("print_row") :
        /\ Cardinality(Positions("get_rows_from_statement")) = Len(statements)
        /\ \E j \in Positions("sorted") :
            /\ j < i
            /\ \A k \in Positions("get_rows_from_statement") : k < j
    /\ \A i \in Positions("run_preassembly") : \A j \in Positions("filter_belief") : i < j
    /\ \A j \in Positions("get_rows_from_statement") :
        /\ \E i \in Positions("run_preassembly") : i < j
        /\ \A i \in Positions("filter_belief") : i < j
        /\ minimum_belief.some => Positions("filter_belief") # {}

C1_Witness ==
    /\ pc = "done"
    /\ Len(statements) = 2
    /\ minimum_belief.some
    /\ Len(out) >= 3

-----------------------------------------------------------------------------
(* C2 *)

\* C2: every data line holds, in this order, uuid, belief, pmid, evidence
\* text, source API name and the serialized edge, each under the header
\* column that names it.
C2_DataFieldsUnderHeader ==
    \A i \in 2..Len(out) :
        LET cells == Split(out[i], sep[1])
            row == rows[i - 1]
        IN  /\ cells[1] = row.uuid
            /\ cells[2] = FloatStr(row.belief)
            /\ cells[3] = row.pmid
            /\ cells[4] = row.evidence
            /\ cells[5] = row.api
            /\ Join(SubSeq(cells, 6, Len(cells)), sep) = row.bel
            /\ sep = <<"\t">> => Len(cells) = Len(header)

-----------------------------------------------------------------------------
(* C3 *)

\* The rows rs are the rows gen in ascending order of (uuid, pmid), rows of
\* equal key in the order they have in gen.
StablyOrdered(rs, gen) ==
    /\ Len(rs) = Len(gen)
    /\ \A i \in 1..Len(rs) : \A j \in (i + 1)..Len(rs) : ~KeyLess(Key(rs[j]), Key(rs[i]))
    /\ \A r \in Range(gen) :
        SelectSeq(rs, LAMBDA x : Key(x) = Key(r)) = SelectSeq(gen, LAMBDA x : Key(x) = Key(r))

-----------------------------------------------------------------------------
(* C4 *)

\* The data lines written are the lines of the first n rows of the sorted rows.
WritesFirst(n) ==
    LET all == sorted(generated, sort_attrs)
    IN  /\ Len(out) = n + 1
        /\ \A i \in 1..n : out[i + 1] = RowLine(all[i], sep)

-----------------------------------------------------------------------------
(* C5 *)

\* C5: the Evidence Filter accepts an evidence exactly when its pmid, text
\* and source are present, the text is not blacklisted and the source is not
\* blacklisted; it raises nothing and changes no evidence.
C5_KeepEvidence ==
    \A i \in 1..Len(log) :
        LET orig == log[i].original.evidence
            got == log[i].got
        IN  /\ got.assembled <=> \E k \in 1..Len(orig) : Accepts(orig[k])
            /\ ~got.assembled => got.raise = "" /\ got.statement.evidence = <<>>
            /\ (keep_only_pmid = None /\ duplicates) =>
                   got.statement.evidence = SelectSeq(orig, Accepts)
            /\ Range(got.statement.evidence) \subseteq Range(orig)

C5_Witness ==
    /\ Len(log) = 1
    /\ keep_only_pmid = None /\ duplicates
    /\ Len(log[1].original.evidence) = 2
    /\ \E k \in 1..2 : log[1].original.evidence[k].pmid = None
    /\ log[1].got.assembled
    /\ Len(log[1].got.statement.evidence) = 1

-----------------------------------------------------------------------------
(* C6 *)

\* The evidence list a statement is to reach graph assembly with.
Qualifying(evidence) ==
    SelectSeq(evidence,
              LAMBDA e : Accepts(e) /\ (keep_only_pmid = None \/ e.pmid = keep_only_pmid))

\* C6: a statement handed to graph assembly has as evidence the entries of
\* its original evidence list that pass the Evidence Filter and, with
\* keep_only_pmid set, have that pmid, in their original order; with
\* duplicates off only the first of them; its uuid and belief are unchanged.
C6_EvidenceHandedToAssembly ==
    \A i \in 1..Len(log) :
        LET original == log[i].original
            handed == log[i].got.statement
            qualifying == Qualifying(original.evidence)
        IN  log[i].got.assembled =>
                /\ duplicates => handed.evidence = qualifying
                /\ ~duplicates =>
                    /\ Len(handed.evidence) <= 1
                    /\ handed.evidence = SubSeq(qualifying, 1, IF qualifying = <<>> THEN 0 ELSE 1)
                /\ handed.uuid = original.uuid
                /\ handed.belief = original.belief

C6_Witness ==
    /\ Len(log) = 1
    /\ log[1].got.assembled
    /\ ~duplicates
    /\ keep_only_pmid # None
    /\ Len(Qualifying(log[1].original.evidence)) = 2
    /\ log[1].original.evidence[1] # log[1].original.evidence[2]
    /\ Len(log[1].got.statement.evidence) = 1

-----------------------------------------------------------------------------
(* C7 *)

\* C7: a statement none of whose evidence passes the Evidence Filter yields
\* no rows and never reaches graph assembly, whatever duplicates and
\* keep_only_pmid are.
C7_NoEvidenceNoAssembly ==
    \A i \in 1..Len(log) :
        (\A k \in 1..Len(log[i].original.evidence) : ~Accepts(log[i].original.evidence[k])) =>
            /\ ~log[i].got.assembled
            /\ log[i].got.rows = <<>>
            /\ log[i].got.raise = ""

C7_Witness ==
    /\ pc = "done"
    /\ Len(log) = 1
    /\ Len(log[1].original.evidence) = 2
    /\ \A k \in 1..2 : ~Accepts(log[1].original.evidence[k])
    /\ make_model(log[1].original) = GRAPH_3
    /\ generated = <<>>

-----------------------------------------------------------------------------
(* C8 *)

\* C8: of the graph assembled from a statement, every edge whose relation is
\* qualified and whose serialized text holds none of CHEBI, PUBCHEM, act(bp(
\* gives exactly one Row, in the order of the edges, and no other edge gives
\* one; the Row has the uuid of the statement and the citation, evidence and
\* annotations of its edge.
C8_OneRowPerQualifiedEdge ==
    \A i \in 1..Len(log) :
        LET got == log[i].got
            made == make_model(got.statement)
            edges == SelectSeq(made.edges, Qualified)
        IN  (got.assembled /\ made.raise = "") =>
                /\ Len(got.rows) = Len(edges)
                /\ \A k \in 1..Len(edges) :
                    /\ got.rows[k].uuid = log[i].original.uuid
                    /\ got.rows[k].pmid = edges[k].data.citation.identifier
                    /\ got.rows[k].evidence = edges[k].data.evidence
                    /\ got.rows[k].evidence_source_hash = edges[k].data.annotations.source_hash
                    /\ got.rows[k].api = edges[k].data.annotations.source_api
                    /\ got.rows[k].bel = Bel(edges[k])

C8_Witness ==
    /\ Len(log) = 1
    /\ log[1].got.assembled
    /\ Len(make_model(log[1].got.statement).edges) = 4
    /\ Len(log[1].got.rows) = 2
    /\ log[1].got.rows[1].evidence = TEXT_2

-----------------------------------------------------------------------------
(* C9 *)

\* The call failed and nothing in print_statements catches the failure.
Uncaught(c) ==
    /\ c.call \in {"run_preassembly", "filter_belief", "make_model"}
    /\ c.raise # ""
    /\ ~(c.call = "make_model" /\ c.raise = "AttributeError")

\* C9: a statement whose graph assembly raises AttributeError gives no rows
\* and no error; the rows of the other statements are still yielded and
\* written; any other failure of a collaborator leaves print_statements as
\* it was raised.
C9_OnlyAssemblyAttributeErrorCaught ==
    /\ \A i \in 1..Len(log) :
        (log[i].got.assembled /\ make_model(log[i].got.statement).raise = "AttributeError") =>
            /\ log[i].got.rows = <<>>
            /\ log[i].got.raise = ""
    /\ \A i \in 1..Len(calls) :
        Uncaught(calls[i]) => i = Len(calls) /\ pc = "raised" /\ err = calls[i].raise
    /\ pc = "raised" <=> (calls # <<>> /\ Uncaught(calls[Len(calls)]))
    /\ pc # "raised" => err = ""
    /\ pc = "done" =>
        /\ Len(log) = Len(statements)
        /\ generated = Flatten([i \in 1..Len(log) |-> log[i].got.rows])
        /\ ~limit.some =>
            /\ Len(out) = Len(generated) + 1
            /\ \A i \in 1..Len(generated) : RowLine(generated[i], sep) \in Range(out)

C9_Witness ==
    /\ pc = "done"
    /\ ~limit.some
    /\ Len(log) = 2
    /\ make_model(log[1].got.statement).raise = "AttributeError"
    /\ log[2].got.rows # <<>>
    /\ Len(out) = Len(log[2].got.rows) + 1

-----------------------------------------------------------------------------
(* C10 *)

\* C10: graph assembly is called on a statement only when at least one
\* evidence is left after the Evidence Filter and keep_only_pmid.
C10_AssemblyNeedsEvidence ==
    \A i \in 1..Len(log) :
        log[i].got.assembled => Len(log[i].got.statement.evidence) >= 1

====
